---- MODULE Spec2Model ----
(***************************************************************************)
(* Model of package clientmetric (util/clientmetric/clientmetric.go): the  *)
(* process-wide metric registry and the logtail delta encoder.             *)
(*                                                                         *)
(* Representation.                                                         *)
(*   - an int64 is its two's-complement bit pattern, a tuple of 8 bytes,   *)
(*     least significant first, so that wrap-around is kept exactly;       *)
(*   - a string is a tuple of code points (all names of interest are       *)
(*     ASCII, so len(name) is the length of the tuple);                    *)
(*   - a time.Time is a number of seconds, 0 being the zero Time;          *)
(*   - a *Metric is an index into heap.                                    *)
(*                                                                         *)
(* Every function that takes the package mutex is one action: the mutex    *)
(* serialises them, and Add and Set are single atomic operations, so an    *)
(* Add that lands during a scan acts as one landing before or after it.    *)
(* The range over the map visits the metrics in an arbitrary order.        *)
(*                                                                         *)
(* SpecScan takes the encode call apart instead: one step up to the loop, *)
(* two steps per metric (the load of its value, the rest of the            *)
(* iteration), one step for the return, with Add and Set between them.     *)
(*                                                                         *)
(* Observers, not program state: ret (what the latest step returned), last *)
(* (time and kind of the latest encode call), consumer (a reader that      *)
(* applies every returned frame), scanVal (the values at the latest scan), *)
(* namedAt (when a frame last named each wireID), regOrder (the order of   *)
(* registration), held (the slices that Metrics() handed out) and ticks.   *)
(*                                                                         *)
(* A slice is a backing array and a length: arrays holds the arrays that   *)
(* Metrics() has made, sortedArr names the one behind sorted, and sorted   *)
(* is what that slice shows.                                               *)
(*                                                                         *)
(* Specifications: Spec (the encoder over a counter and a gauge, clock     *)
(* steps of 15 s and 4 h), SpecRate (clock steps around the rate limit),   *)
(* SpecLate (metrics registered after they were constructed and changed),  *)
(* SpecRegistry (registration with every kind of name), SpecExpo (the text *)
(* dump next to the encoder), SpecScan (the encode call load by load).     *)
(***************************************************************************)
EXTENDS Integers, Sequences, FiniteSets, TLC

\* ------------------------------------------------------------------ bounds
MaxObjs == 2      \* Metric objects allocated in a run
MaxTicks == 2     \* clock advances in a run
MaxVal == 1       \* a metric's value is MinInt64 or within 0..MaxVal
StartTime == 1    \* wall clock at process start (any non-zero Time)

\* ------------------------------------------------------- program constants
TypeGauge == 0
TypeCounter == 1
metricLogNameFrequency == 14400   \* 4 * time.Hour, in seconds
minMetricEncodeInterval == 15     \* 15 * time.Second, in seconds

\* ---------------------------------------------------------- int64 patterns
\* the 8 bytes f(1), ..., f(8)
Mk(f(_)) == <<f(1), f(2), f(3), f(4), f(5), f(6), f(7), f(8)>>
Zero64 == <<0, 0, 0, 0, 0, 0, 0, 0>>
MinInt64 == <<0, 0, 0, 0, 0, 0, 0, 128>>

\* ^x
Not64(x) == Mk(LAMBDA i : 255 - x[i])

\* bytes i..8 of x + y, with carry c into byte i
RECURSIVE AddFrom(_, _, _, _)
AddFrom(x, y, c, i) ==
    IF i > 8 THEN <<>>
    ELSE <<(x[i] + y[i] + c) % 256>> \o AddFrom(x, y, (x[i] + y[i] + c) \div 256, i + 1)

\* x + y modulo 2^64
Add64(x, y) == AddFrom(x, y, 0, 1)

\* variant: the operands the other way round
Sub64Swapped(x, y) == AddFrom(y, Not64(x), 1, 1)

\* x - y modulo 2^64
Sub64(x, y) == AddFrom(x, Not64(y), 1, 1)
IsNeg64(x) == x[8] >= 128

\* int64(n) for a Go int n of small magnitude
Int64(n) ==
    LET nat(k) == <<k % 256, (k \div 256) % 256, (k \div 65536) % 256, 0, 0, 0, 0, 0>>
    IN  IF n >= 0 THEN nat(n) ELSE Not64(nat((-n) - 1))

\* ------------------------------------------------- encoding/binary, hex
\* x << 1, x >> 7 and x << 7 on uint64
Shl1(x) == Mk(LAMBDA i : ((2 * x[i]) % 256) + (IF i = 1 THEN 0 ELSE x[i-1] \div 128))
Shr7(x) == Mk(LAMBDA i : (x[i] \div 128) + 2 * (IF i = 8 THEN 0 ELSE x[i+1] % 128))
Shl7(x) == Mk(LAMBDA i : 128 * (x[i] % 2) + (IF i = 1 THEN 0 ELSE x[i-1] \div 2))

\* binary.PutUvarint: base-128 groups, low group first, 0x80 = continuation
RECURSIVE PutUvarint(_)
PutUvarint(x) ==
    IF x[1] >= 128 \/ \E i \in 2..8 : x[i] # 0
    THEN <<(x[1] % 128) + 128>> \o PutUvarint(Shr7(x))
    ELSE <<x[1]>>

\* binary.PutVarint: zig-zag, then PutUvarint
PutVarint(x) == PutUvarint(IF IsNeg64(x) THEN Not64(Shl1(x)) ELSE Shl1(x))

\* hextable = "0123456789abcdef"
HexDigit(d) == IF d < 10 THEN 48 + d ELSE 87 + d

RECURSIVE HexEncode(_)
HexEncode(bs) ==
    IF bs = <<>> THEN <<>>
    ELSE <<HexDigit(Head(bs) \div 16), HexDigit(Head(bs) % 16)>> \o HexEncode(Tail(bs))

\* variant: the varint bytes are written as they are
writeRawVarint(v) == PutVarint(v)

\* deltaEncBuf.writeHexVarint, as the bytes it appends to the buffer
writeHexVarint(v) == HexEncode(PutVarint(v))

\* variant: the value record is written with the letter of an increment
writeValueAsDelta(wireID, v) == <<73>> \o writeHexVarint(Int64(wireID)) \o writeHexVarint(v)

\* deltaEncBuf.writeName / writeValue / writeDelta, as the bytes appended
writeName(name) == <<78>> \o writeHexVarint(Int64(Len(name))) \o name
writeValue(wireID, v) == <<83>> \o writeHexVarint(Int64(wireID)) \o writeHexVarint(v)
writeDelta(wireID, v) == <<73>> \o writeHexVarint(Int64(wireID)) \o writeHexVarint(v)

\* ------------------------------------------------------------------ names
\* variant: the dash is let through
isIllegalExceptDash(r) ==
    ~ (  (r >= 97 /\ r <= 122)
      \/ (r >= 65 /\ r <= 90)
      \/ (r >= 48 /\ r <= 57)
      \/ r = 95 \/ r = 45 )

isIllegalMetricRune(r) ==
    ~ (  (r >= 97 /\ r <= 122)
      \/ (r >= 65 /\ r <= 90)
      \/ (r >= 48 /\ r <= 57)
      \/ r = 95 )

\* strings.IndexFunc(name, isIllegalMetricRune), 0-based, -1 when none
IndexIllegal(name) ==
    IF \E i \in 1..Len(name) : isIllegalMetricRune(name[i])
    THEN (CHOOSE i \in 1..Len(name) :
             /\ isIllegalMetricRune(name[i])
             /\ \A j \in 1..(i-1) : ~ isIllegalMetricRune(name[j])) - 1
    ELSE -1

\* a < b on Go strings (bytewise lexicographic)
RECURSIVE StrLess(_, _)
StrLess(a, b) ==
    IF b = <<>> THEN FALSE
    ELSE IF a = <<>> THEN TRUE
    ELSE IF Head(a) # Head(b) THEN Head(a) < Head(b)
    ELSE StrLess(Tail(a), Tail(b))


\* ------------------------------------------------------------------ inputs
NameEmpty == <<>>
NameSpace == <<104, 97, 115, 32, 115, 112, 97, 99, 101>>                    \* "has space"
NameDash == <<104, 97, 115, 45, 100, 97, 115, 104>>                         \* "has-dash"
NameValid == <<118, 97, 108, 105, 100, 95, 78, 97, 109, 101, 49, 50, 51>>   \* "valid_Name123"
NameA == <<97>>                                                             \* "a"
NameInputs == {NameEmpty, NameSpace, NameDash, NameValid, NameA}
TypeInputs == {TypeGauge, TypeCounter}
AddInputs == {Int64(1), Int64(-1)}
SetInputs == {Zero64, MinInt64}
\* clock advances around the rate limit, and around the naming period
\* writers: one that rejects every write, one that takes a single write, and
\* one that takes them all
WriterInputs == {0, 1, 2 * MaxObjs}
RateTicks == {1, minMetricEncodeInterval - 1}
NameTicks == {minMetricEncodeInterval, metricLogNameFrequency}

\* the metric values a run may visit
ValueRange == {Int64(k) : k \in 0..MaxVal} \cup {MinInt64}

\* ------------------------------------------------------------------- state
VARIABLES
    now,          \* the wall clock, time.Now()
    heap,         \* the Metric objects, in allocation order
    mu,           \* TRUE while the package mutex is held
    metrics,      \* map[string]*Metric
    numWireID,    \* how many wireIDs have been allocated
    lastDelta,    \* time of last scan by EncodeLogTailMetricsDelta
    sortedDirty,  \* whether sorted needs to be rebuilt
    sorted,       \* []*Metric, by name
    ret,          \* what the step just taken returned (NoRet when nothing)
    last,         \* the latest EncodeLogTailMetricsDelta call: its time, whether
                  \* it was rate-limited, and the time of the latest scan
    consumer,     \* a reader of the frames: wireID -> name, wireID -> value
    scanVal,      \* per object: value and registration at the latest scan
    regOrder,     \* the registered metrics in order of registration
    ticks,        \* number of clock advances so far
    scan,         \* the locals of an EncodeLogTailMetricsDelta call in progress
    namedAt,      \* per wireID, the time of the latest frame that named it
    arrays,       \* the backing arrays that Metrics() has made, in order
    sortedArr,    \* the backing array of sorted, 0 for the nil slice
    held          \* the slices Metrics() has returned, each with the
                  \* contents it had when it was returned

vars == <<now, heap, mu, metrics, numWireID, lastDelta, sortedDirty, sorted,
          ret, last, consumer, scanVal, regOrder, ticks, scan, namedAt,
          arrays, sortedArr, held>>
\* the slices of the registry: their arrays, and those handed out
slices == <<arrays, sortedArr, held>>
registry == <<metrics, sortedDirty, sorted, slices>>
NoRet == [op |-> "none", name |-> <<>>, m |-> 0, panicked |-> FALSE, out |-> <<>>]
encoder == <<numWireID, lastDelta, scan>>
ghosts == <<last, consumer, scanVal, namedAt>>
\* no call of EncodeLogTailMetricsDelta is in progress
NoScan == [pc |-> "idle"]

\* &Metric{name: name, typ: typ}
NewMetric(name, typ) ==
    [name |-> name, typ |-> typ, v |-> Zero64,
     wireID |-> 0, lastNamed |-> 0, lastLogVal |-> Zero64]

Range(f) == {f[k] : k \in DOMAIN f}
Perms(S) == {s \in [1..Cardinality(S) -> S] : \A i, j \in DOMAIN s : s[i] = s[j] => i = j}

Init ==
    /\ now = StartTime
    /\ heap = <<>>
    /\ mu = FALSE
    /\ metrics = <<>>
    /\ numWireID = 0
    /\ lastDelta = 0
    /\ sortedDirty = FALSE
    /\ sorted = <<>>
    /\ ret = NoRet
    /\ last = [at |-> 0, limited |-> FALSE, scanAt |-> 0, empty |-> FALSE]
    /\ consumer = [name |-> <<>>, val |-> <<>>]
    /\ scanVal = <<>>
    /\ regOrder = <<>>
    /\ ticks = 0
    /\ scan = NoScan
    /\ namedAt = <<>>
    /\ arrays = <<>>
    /\ sortedArr = 0
    /\ held = {}

\* ------------------------------------------------------------------- clock
Tick(d) ==
    /\ ticks < MaxTicks
    /\ ticks' = ticks + 1
    /\ now' = now + d
    /\ ret' = NoRet
    /\ UNCHANGED <<heap, mu, registry, encoder, ghosts, regOrder>>

\* ---------------------------------------------------------------- registry
\* variant: no check for a duplicate, the later metric takes the name
PublishOverwrites(h, p, ms, dirty) ==
    IF h[p].name = <<>> THEN [panicked |-> TRUE, metrics |-> ms, sortedDirty |-> dirty]
    ELSE [panicked |-> FALSE,
          metrics |-> [n \in DOMAIN ms \cup {h[p].name} |-> IF n = h[p].name THEN p ELSE ms[n]],
          sortedDirty |-> TRUE]

\* variant: the registration does not mark the sorted list as stale
PublishNotDirty(h, p, ms, dirty) ==
    IF h[p].name = <<>> THEN [panicked |-> TRUE, metrics |-> ms, sortedDirty |-> dirty]
    ELSE IF h[p].name \in DOMAIN ms THEN [panicked |-> TRUE, metrics |-> ms, sortedDirty |-> dirty]
    ELSE [panicked |-> FALSE,
          metrics |-> [n \in DOMAIN ms \cup {h[p].name} |-> IF n = h[p].name THEN p ELSE ms[n]],
          sortedDirty |-> dirty]

\* outcome of Metric.Publish on object p in registry state (ms, dirty):
\* a panic leaves everything as it was, the deferred Unlock has run
PublishOutcome(h, p, ms, dirty) ==
    IF h[p].name = <<>> THEN [panicked |-> TRUE, metrics |-> ms, sortedDirty |-> dirty]
    ELSE IF h[p].name \in DOMAIN ms THEN [panicked |-> TRUE, metrics |-> ms, sortedDirty |-> dirty]
    ELSE [panicked |-> FALSE,
          metrics |-> [n \in DOMAIN ms \cup {h[p].name} |-> IF n = h[p].name THEN p ELSE ms[n]],
          sortedDirty |-> TRUE]

Publish(p) ==
    /\ p \in DOMAIN heap
    /\ mu = FALSE
    /\ LET o == PublishOutcome(heap, p, metrics, sortedDirty) IN
         /\ metrics' = o.metrics
         /\ sortedDirty' = o.sortedDirty
         /\ ret' = [op |-> "Publish", name |-> heap[p].name, m |-> p,
                    panicked |-> o.panicked, out |-> <<>>]
         /\ regOrder' = IF o.panicked THEN regOrder ELSE Append(regOrder, p)
    /\ mu' = FALSE
    /\ UNCHANGED <<now, heap, sorted, slices, encoder, ghosts, ticks>>

NewUnpublishedPanics(name) == name = <<>> \/ IndexIllegal(name) # -1

NewUnpublished(name, typ) ==
    /\ IF NewUnpublishedPanics(name)
       THEN /\ heap' = heap
            /\ ret' = [op |-> "NewUnpublished", name |-> name, m |-> 0,
                       panicked |-> TRUE, out |-> <<>>]
       ELSE /\ Len(heap) < MaxObjs
            /\ heap' = Append(heap, NewMetric(name, typ))
            /\ ret' = [op |-> "NewUnpublished", name |-> name, m |-> Len(heap) + 1,
                       panicked |-> FALSE, out |-> <<>>]
    /\ UNCHANGED <<now, mu, registry, encoder, ghosts, regOrder, ticks>>

\* var m clientmetric.Metric: the zero value of the exported type
ZeroMetric ==
    /\ Len(heap) < MaxObjs
    /\ heap' = Append(heap, NewMetric(<<>>, TypeGauge))
    /\ ret' = [op |-> "ZeroMetric", name |-> <<>>, m |-> Len(heap) + 1,
               panicked |-> FALSE, out |-> <<>>]
    /\ UNCHANGED <<now, mu, registry, encoder, ghosts, regOrder, ticks>>

\* NewCounter and NewGauge: NewUnpublished, then Publish; when either panics
\* the new object is returned to nobody, and heap keeps only reachable objects
NewPublished(opname, name, typ) ==
    IF NewUnpublishedPanics(name)
    THEN /\ ret' = [op |-> opname, name |-> name, m |-> 0, panicked |-> TRUE, out |-> <<>>]
         /\ UNCHANGED <<now, heap, mu, registry, encoder, ghosts, regOrder, ticks>>
    ELSE /\ Len(heap) < MaxObjs
         /\ mu = FALSE
         /\ LET p == Len(heap) + 1
                h == Append(heap, NewMetric(name, typ))
                o == PublishOutcome(h, p, metrics, sortedDirty) IN
              /\ heap' = IF o.panicked THEN heap ELSE h
              /\ metrics' = o.metrics
              /\ sortedDirty' = o.sortedDirty
              /\ ret' = [op |-> opname, name |-> name, m |-> IF o.panicked THEN 0 ELSE p,
                         panicked |-> o.panicked, out |-> <<>>]
              /\ regOrder' = IF o.panicked THEN regOrder ELSE Append(regOrder, p)
         /\ mu' = FALSE
         /\ UNCHANGED <<now, sorted, slices, encoder, ghosts, ticks>>

NewCounter(name) == NewPublished("NewCounter", name, TypeCounter)
NewGauge(name) == NewPublished("NewGauge", name, TypeGauge)

\* sort.Slice(sorted, by name) over the values of the map
SortedByName(ms) ==
    CHOOSE s \in Perms(Range(ms)) :
        \A i, j \in DOMAIN s : i < j => StrLess(heap[s[i]].name, heap[s[j]].name)

\* what a slice of the first n elements of array a shows
View(arrs, a, n) == IF a = 0 THEN <<>> ELSE SubSeq(arrs[a], 1, n)

\* variant: the list is rebuilt from sorted[:0], so that the first appends
\* land in the old array before append moves to a new one
RebuildInPlace(arrs, a, list) ==
    [arrays |-> Append(IF a = 0 THEN arrs
                       ELSE [arrs EXCEPT ![a] = SubSeq(list, 1, Len(arrs[a]))], list),
     arr |-> Len(arrs) + 1]

\* "sorted = make([]*Metric, 0, len(metrics))", the appends and the sort:
\* the list is laid out in a new array, the arrays made before are left alone
Rebuild(arrs, a, list) == [arrays |-> Append(arrs, list), arr |-> Len(arrs) + 1]

\* the body of Metrics() under the lock: the arrays and the array of sorted
MetricsOutcome ==
    IF sortedDirty THEN Rebuild(arrays, sortedArr, SortedByName(metrics))
    ELSE [arrays |-> arrays, arr |-> sortedArr]

Metrics ==
    /\ mu = FALSE
    /\ sortedDirty' = FALSE
    /\ arrays' = MetricsOutcome.arrays
    /\ sortedArr' = MetricsOutcome.arr
    /\ sorted' = IF sortedDirty THEN View(arrays', sortedArr', Cardinality(DOMAIN metrics))
                 ELSE sorted
    /\ ret' = [op |-> "Metrics", name |-> <<>>, m |-> 0, panicked |-> FALSE, out |-> sorted']
    /\ held' = held \cup {[arr |-> sortedArr', len |-> Len(sorted'), was |-> sorted']}
    /\ mu' = FALSE
    /\ UNCHANGED <<now, heap, metrics, encoder, ghosts, regOrder, ticks>>

\* -------------------------------------------------------------- exposition
\* x / 10 and x % 10 on uint64: long division over bytes i..1, r carried in
RECURSIVE DivFrom(_, _, _)
DivFrom(x, i, r) ==
    IF i = 0 THEN [q |-> <<>>, r |-> r]
    ELSE LET cur == r * 256 + x[i]
             rest == DivFrom(x, i - 1, cur % 10)
         IN  [q |-> Append(rest.q, cur \div 10), r |-> rest.r]

\* the decimal digits of a non-zero uint64, none for 0
RECURSIVE FormatUint(_)
FormatUint(x) ==
    IF x = Zero64 THEN <<>>
    ELSE LET d == DivFrom(x, 8, 0) IN FormatUint(d.q) \o <<48 + d.r>>

\* fmt's %v of an int64: decimal, with a minus sign when negative
FormatInt(x) ==
    IF x = Zero64 THEN <<48>>
    ELSE IF IsNeg64(x) THEN <<45>> \o FormatUint(Add64(Not64(x), Int64(1)))
    ELSE FormatUint(x)

\* "# TYPE %s gauge\n" / "# TYPE %s counter\n", nothing for another type
TypeLine(m) ==
    IF m.typ = TypeGauge
    THEN <<<<35, 32, 84, 89, 80, 69, 32>> \o m.name \o <<32, 103, 97, 117, 103, 101, 10>>>>
    ELSE IF m.typ = TypeCounter
    THEN <<<<35, 32, 84, 89, 80, 69, 32>> \o m.name
             \o <<32, 99, 111, 117, 110, 116, 101, 114, 10>>>>
    ELSE <<>>

\* "%s %v\n"
ValueLine(m) == <<m.name \o <<32>> \o FormatInt(m.v) \o <<10>>>>

\* the Fprintf calls of the loop over list, in order, as the bytes of each
RECURSIVE Fprintfs(_, _)
Fprintfs(h, list) ==
    IF list = <<>> THEN <<>>
    ELSE TypeLine(h[Head(list)]) \o ValueLine(h[Head(list)]) \o Fprintfs(h, Tail(list))

RECURSIVE Concat(_)
Concat(ss) == IF ss = <<>> THEN <<>> ELSE Head(ss) \o Concat(Tail(ss))

\* variant: the dump marks what it wrote as logged
WritePrometheusLogs(h, list, k) ==
    LET ws == Fprintfs(h, list)
        n == IF k < Len(ws) THEN k ELSE Len(ws)
    IN  [heap |-> [p \in DOMAIN h |->
                     IF p \in Range(list) THEN [h[p] EXCEPT !.lastLogVal = h[p].v] ELSE h[p]],
         out |-> Concat(SubSeq(ws, 1, n)), rejected |-> Len(ws) - n]

\* the loop of WritePrometheusExpositionFormat over list, on a writer that
\* takes k writes and rejects every later one: the metrics are only read, the
\* error that a Fprintf returns is dropped, and every write is attempted
WritePrometheusOutcome(h, list, k) ==
    LET ws == Fprintfs(h, list)
        n == IF k < Len(ws) THEN k ELSE Len(ws)
    IN  [heap |-> h, out |-> Concat(SubSeq(ws, 1, n)), rejected |-> Len(ws) - n]

\* WritePrometheusExpositionFormat(w): Metrics(), then the loop. The function
\* has no result: err, what it reports to its caller, is never set
WritePrometheusExpositionFormat(k) ==
    /\ mu = FALSE
    /\ sortedDirty' = FALSE
    /\ arrays' = MetricsOutcome.arrays
    /\ sortedArr' = MetricsOutcome.arr
    /\ sorted' = IF sortedDirty THEN View(arrays', sortedArr', Cardinality(DOMAIN metrics))
                 ELSE sorted
    /\ LET o == WritePrometheusOutcome(heap, sorted', k) IN
         /\ heap' = o.heap
         /\ ret' = [op |-> "WritePrometheusExpositionFormat", name |-> <<>>, m |-> 0,
                    panicked |-> FALSE, out |-> o.out,
                    rejected |-> o.rejected, err |-> FALSE]
    /\ mu' = FALSE
    /\ UNCHANGED <<now, metrics, held, encoder, ghosts, regOrder, ticks>>

\* ------------------------------------------------------------------ values
Add(p, n) ==
    /\ p \in DOMAIN heap
    /\ Add64(heap[p].v, n) \in ValueRange
    /\ heap' = [heap EXCEPT ![p].v = Add64(@, n)]
    /\ ret' = NoRet
    /\ UNCHANGED <<now, mu, registry, encoder, ghosts, regOrder, ticks>>

Set(p, v) ==
    /\ p \in DOMAIN heap
    /\ heap' = [heap EXCEPT ![p].v = v]
    /\ ret' = NoRet
    /\ UNCHANGED <<now, mu, registry, encoder, ghosts, regOrder, ticks>>

\* ----------------------------------------------------------------- encoder
\* variants of the rate limit: a window one second short, and one that also
\* turns away the call made exactly at the interval
RateLimitedShort(t, ld) == ld # 0 /\ t - ld < minMetricEncodeInterval - 1
RateLimitedInclusive(t, ld) == ld # 0 /\ t - ld <= minMetricEncodeInterval

\* variants: no call is turned away; and the zero Time counts as a time
RateLimitedNever(t, ld) == FALSE
RateLimitedFromZero(t, ld) == t - ld < minMetricEncodeInterval

\* the rate limit of EncodeLogTailMetricsDelta, at time t with lastDelta ld
RateLimited(t, ld) == ld # 0 /\ t - ld < minMetricEncodeInterval

\* variants of the naming rule: named once and never again, and named again
\* already at exactly the period
NeedsNameOnce(t, lastNamed) == lastNamed = 0
NeedsNameInclusive(t, lastNamed) == lastNamed = 0 \/ t - lastNamed >= metricLogNameFrequency

\* variant: a name is good for a quarter of a minute longer
NeedsNameLate(t, lastNamed) ==
    lastNamed = 0 \/ t - lastNamed > metricLogNameFrequency + minMetricEncodeInterval

\* whether a changed metric is written as name + value rather than as delta
NeedsName(t, lastNamed) == lastNamed = 0 \/ t - lastNamed > metricLogNameFrequency

\* variant: the counter is bumped after the metric has taken its value
WireIDStale(m, n) ==
    IF m.wireID = 0 THEN [id |-> n, num |-> n + 1] ELSE [id |-> m.wireID, num |-> n]

\* "if m.wireID == 0 { numWireID++; m.wireID = numWireID }": the metric's
\* wireID and the new numWireID
WireID(m, n) ==
    IF m.wireID = 0 THEN [id |-> n + 1, num |-> n + 1] ELSE [id |-> m.wireID, num |-> n]

\* variant: only the first scan's time is kept
NewLastDeltaOnce(ld, t) == IF ld = 0 THEN t ELSE ld

\* "lastDelta = now", which precedes the scan: whatever the scan then finds
NewLastDelta(ld, t) == t

\* variant: the value just reported is not remembered
LoggedNot(m, val) == m

\* "m.lastLogVal = val"
Logged(m, val) == [m EXCEPT !.lastLogVal = val]

\* variant: a metric is written also when its value has not changed
VisitNoSkip(st, p, t, val) ==
    LET m == st.heap[p]
        delta == Sub64(val, m.lastLogVal)
        w == WireID(m, st.numWireID)
        named == NeedsName(t, m.lastNamed)
    IN  [heap |-> [st.heap EXCEPT ![p] =
                      [Logged(m, val) EXCEPT !.wireID = w.id,
                                             !.lastNamed = IF named THEN t ELSE @]],
         numWireID |-> w.num,
         enc |-> TRUE,
         buf |-> st.buf \o (IF named
                            THEN writeName(m.name) \o writeValue(w.id, val)
                            ELSE writeDelta(w.id, delta))]

\* variant: the value is loaded again for lastLogVal
VisitRereads(st, p, t, val) ==
    LET m == st.heap[p]
        delta == Sub64(val, m.lastLogVal)
        w == WireID(m, st.numWireID)
        named == NeedsName(t, m.lastNamed)
    IN  IF delta = Zero64 THEN st
        ELSE [heap |-> [st.heap EXCEPT ![p] =
                           [Logged(m, m.v) EXCEPT !.wireID = w.id,
                                                  !.lastNamed = IF named THEN t ELSE @]],
              numWireID |-> w.num,
              enc |-> TRUE,
              buf |-> st.buf \o (IF named
                                 THEN writeName(m.name) \o writeValue(w.id, val)
                                 ELSE writeDelta(w.id, delta))]

\* one iteration of the loop over the map, for metric p at time t, once its
\* value has been loaded as val;
\* st = [heap, numWireID, enc (FALSE while enc is nil), buf]
Visit(st, p, t, val) ==
    LET m == st.heap[p]
        delta == Sub64(val, m.lastLogVal)
        w == WireID(m, st.numWireID)
        named == NeedsName(t, m.lastNamed)
    IN  IF delta = Zero64 THEN st
        ELSE [heap |-> [st.heap EXCEPT ![p] =
                           [Logged(m, val) EXCEPT !.wireID = w.id,
                                                  !.lastNamed = IF named THEN t ELSE @]],
              numWireID |-> w.num,
              enc |-> TRUE,
              buf |-> st.buf \o (IF named
                                 THEN writeName(m.name) \o writeValue(w.id, val)
                                 ELSE writeDelta(w.id, delta))]

\* one iteration, with its load "val := m.Value()"
ScanOne(st, p, t) == Visit(st, p, t, st.heap[p].v)

\* the loop over the map, visiting the names in the given order
RECURSIVE Scan(_, _, _, _)
Scan(st, ms, order, t) ==
    IF order = <<>> THEN st
    ELSE Scan(ScanOne(st, ms[Head(order)], t), ms, Tail(order), t)

\* ------------------------------------------------------- reader of frames
HexVal(c) == IF c >= 48 /\ c <= 57 THEN c - 48
             ELSE IF c >= 97 /\ c <= 102 THEN c - 87 ELSE -1

\* the varint bytes that start at s[i]: hex pairs up to the first byte < 0x80
RECURSIVE ReadBytes(_, _)
ReadBytes(s, i) ==
    IF i + 1 > Len(s) \/ HexVal(s[i]) < 0 \/ HexVal(s[i+1]) < 0
    THEN [ok |-> FALSE, bytes |-> <<>>, next |-> i]
    ELSE LET b == 16 * HexVal(s[i]) + HexVal(s[i+1]) IN
         IF b < 128 THEN [ok |-> TRUE, bytes |-> <<b>>, next |-> i + 2]
         ELSE LET r == ReadBytes(s, i + 2) IN
              [ok |-> r.ok, bytes |-> <<b>> \o r.bytes, next |-> r.next]

RECURSIVE Uvarint(_)
Uvarint(bs) ==
    IF bs = <<>> THEN Zero64
    ELSE LET hi == Shl7(Uvarint(Tail(bs))) IN
         Mk(LAMBDA i : IF i = 1 THEN hi[1] + (Head(bs) % 128) ELSE hi[i])

Shr1(x) == Mk(LAMBDA i : (x[i] \div 2) + 128 * (IF i = 8 THEN 0 ELSE x[i+1] % 2))

\* binary.Varint: undo the zig-zag
Varint(bs) == LET ux == Uvarint(bs) IN
              IF ux[1] % 2 = 1 THEN Not64(Shr1(ux)) ELSE Shr1(ux)

ToNat(x) == x[1] + 256 * x[2] + 65536 * x[3]

BadRecord == [t |-> "bad", name |-> <<>>, id |-> Zero64, val |-> Zero64]

\* the records of frame s from position i on
RECURSIVE Decode(_, _)
Decode(s, i) ==
    IF i > Len(s) THEN <<>>
    ELSE IF s[i] = 78 THEN
        LET l == ReadBytes(s, i + 1)
            n == ToNat(Varint(l.bytes))
        IN  IF ~ l.ok \/ l.next + n - 1 > Len(s) THEN <<BadRecord>>
            ELSE <<[t |-> "N", name |-> SubSeq(s, l.next, l.next + n - 1),
                    id |-> Zero64, val |-> Zero64]>> \o Decode(s, l.next + n)
    ELSE IF s[i] \in {83, 73} THEN
        LET a == ReadBytes(s, i + 1)
            b == ReadBytes(s, a.next)
        IN  IF ~ a.ok \/ ~ b.ok THEN <<BadRecord>>
            ELSE <<[t |-> IF s[i] = 83 THEN "S" ELSE "I", name |-> <<>>,
                    id |-> Varint(a.bytes), val |-> Varint(b.bytes)]>> \o Decode(s, b.next)
    ELSE <<BadRecord>>

Records(frame) == Decode(frame, 1)

\* the reader's state after records rs; pend is the name of a preceding N
RECURSIVE Apply(_, _, _)
Apply(c, rs, pend) ==
    IF rs = <<>> THEN c
    ELSE LET r == Head(rs)
             old == IF r.id \in DOMAIN c.val THEN c.val[r.id] ELSE Zero64
             put(f, k, x) == [j \in DOMAIN f \cup {k} |-> IF j = k THEN x ELSE f[j]]
         IN  IF r.t = "N" THEN Apply(c, Tail(rs), r.name)
             ELSE IF r.t = "S" THEN
                 Apply([name |-> put(c.name, r.id, pend), val |-> put(c.val, r.id, r.val)],
                       Tail(rs), <<>>)
             ELSE IF r.t = "I" THEN
                 Apply([c EXCEPT !.val = put(c.val, r.id, Add64(old, r.val))], Tail(rs), <<>>)
             ELSE c

\* the wireIDs that the records rs name: N directly followed by S
NamedIn(rs) ==
    {rs[i + 1].id : i \in {j \in DOMAIN rs : rs[j].t = "N" /\ j + 1 \in DOMAIN rs
                                              /\ rs[j + 1].t = "S"}}
NamedAtAfter(na, rs, t) ==
    [id \in DOMAIN na \cup NamedIn(rs) |-> IF id \in NamedIn(rs) THEN t ELSE na[id]]

EncodeLogTailMetricsDelta ==
    /\ mu = FALSE
    /\ IF RateLimited(now, lastDelta)
       THEN /\ last' = [at |-> now, limited |-> TRUE, scanAt |-> last.scanAt,
                        empty |-> TRUE]
            /\ ret' = [NoRet EXCEPT !.op = "Encode"]
            /\ UNCHANGED <<heap, numWireID, lastDelta, consumer, scanVal, namedAt>>
       ELSE \E order \in Perms(DOMAIN metrics) :
              LET st == Scan([heap |-> heap, numWireID |-> numWireID,
                              enc |-> FALSE, buf |-> <<>>], metrics, order, now)
                  out == IF st.enc THEN st.buf ELSE <<>>
                  rs == Records(out)
              IN  /\ lastDelta' = NewLastDelta(lastDelta, now)
                  /\ heap' = st.heap
                  /\ numWireID' = st.numWireID
                  /\ last' = [at |-> now, limited |-> FALSE, scanAt |-> now,
                              empty |-> out = <<>>]
                  /\ ret' = [NoRet EXCEPT !.op = "Encode", !.out = out]
                  /\ consumer' = Apply(consumer, rs, <<>>)
                  /\ namedAt' = NamedAtAfter(namedAt, rs, now)
                  /\ scanVal' = [p \in DOMAIN heap |->
                                   [v |-> heap[p].v, reg |-> p \in Range(metrics)]]
    /\ mu' = FALSE
    /\ UNCHANGED <<now, registry, regOrder, ticks, scan>>

\* ------------------------------------ the encode call, load by load
\* EncodeLogTailMetricsDelta up to the loop: the lock, the clock, the rate
\* limit (a rate-limited call returns here), lastDelta
EncodeEnter ==
    /\ mu = FALSE
    /\ scan = NoScan
    /\ IF RateLimited(now, lastDelta)
       THEN /\ last' = [at |-> now, limited |-> TRUE, scanAt |-> last.scanAt,
                        empty |-> TRUE]
            /\ ret' = [NoRet EXCEPT !.op = "Encode"]
            /\ mu' = FALSE
            /\ UNCHANGED <<lastDelta, scan>>
       ELSE \E order \in Perms(DOMAIN metrics) :
              /\ lastDelta' = NewLastDelta(lastDelta, now)
              /\ scan' = [pc |-> "loop", t |-> now, order |-> order, enc |-> FALSE,
                          buf |-> <<>>, val |-> Zero64, read |-> <<>>]
              /\ mu' = TRUE
              /\ ret' = NoRet
              /\ last' = last
    /\ UNCHANGED <<now, heap, registry, numWireID, consumer, scanVal, namedAt,
                   regOrder, ticks>>

\* "val := m.Value()" for the next metric of the range
ScanRead ==
    /\ scan.pc = "loop" /\ scan.order # <<>>
    /\ scan' = [scan EXCEPT !.pc = "read", !.val = heap[metrics[Head(scan.order)]].v]
    /\ ret' = NoRet
    /\ UNCHANGED <<now, heap, mu, registry, numWireID, lastDelta, ghosts, regOrder, ticks>>

\* the rest of the iteration, on the value that was loaded
ScanVisit ==
    /\ scan.pc = "read"
    /\ LET p == metrics[Head(scan.order)]
           st == Visit([heap |-> heap, numWireID |-> numWireID,
                        enc |-> scan.enc, buf |-> scan.buf], p, scan.t, scan.val)
       IN  /\ heap' = st.heap
           /\ numWireID' = st.numWireID
           /\ scan' = [scan EXCEPT !.pc = "loop", !.order = Tail(@),
                                   !.enc = st.enc, !.buf = st.buf,
                                   !.read = [q \in DOMAIN @ \cup {p} |->
                                               IF q = p THEN scan.val ELSE @[q]]]
    /\ ret' = NoRet
    /\ UNCHANGED <<now, mu, registry, lastDelta, ghosts, regOrder, ticks>>

\* after the loop: "" when enc is nil, else the buffer; the lock is released
EncodeReturn ==
    /\ scan.pc = "loop" /\ scan.order = <<>>
    /\ LET out == IF scan.enc THEN scan.buf ELSE <<>> IN
         /\ ret' = [NoRet EXCEPT !.op = "Encode", !.out = out]
         /\ last' = [at |-> scan.t, limited |-> FALSE, scanAt |-> scan.t,
                     empty |-> out = <<>>]
         /\ consumer' = Apply(consumer, Records(out), <<>>)
         /\ namedAt' = NamedAtAfter(namedAt, Records(out), scan.t)
    /\ scanVal' = [p \in DOMAIN heap |->
                     [v |-> IF p \in DOMAIN scan.read THEN scan.read[p] ELSE heap[p].v,
                      reg |-> p \in DOMAIN scan.read]]
    /\ scan' = NoScan
    /\ mu' = FALSE
    /\ UNCHANGED <<now, heap, registry, numWireID, lastDelta, regOrder, ticks>>

\* the metrics of each type; callers keep to the documented use: a counter is
\* only added to, and never a negative number
Counters == {p \in DOMAIN heap : heap[p].typ = TypeCounter}
Gauges == {p \in DOMAIN heap : heap[p].typ = TypeGauge}

\* the encoder over a counter and a gauge, each registered once
Next ==
    \/ \E d \in NameTicks : Tick(d)
    \/ \E n \in {NameA} \ DOMAIN metrics : NewCounter(n)
    \/ \E n \in {NameValid} \ DOMAIN metrics : NewGauge(n)
    \/ \E p \in Counters : Add(p, Int64(1))
    \/ \E p \in Gauges, n \in AddInputs : Add(p, n)
    \/ \E p \in Gauges, v \in SetInputs : Set(p, v)
    \/ EncodeLogTailMetricsDelta

Spec == Init /\ [][Next]_vars

\* the rate limit: one metric, clock advances around 15 seconds
NextRate ==
    \/ \E d \in RateTicks : Tick(d)
    \/ \E n \in {NameA} \ DOMAIN metrics : NewCounter(n)
    \/ \E p \in DOMAIN heap, n \in AddInputs : Add(p, n)
    \/ EncodeLogTailMetricsDelta

SpecRate == Init /\ [][NextRate]_vars

\* metrics that are constructed first and registered later, each name once
NextLate ==
    \/ Tick(minMetricEncodeInterval)
    \/ NewUnpublished(NameA, TypeGauge)
    \/ \E p \in {q \in DOMAIN heap : heap[q].name \notin DOMAIN metrics} : Publish(p)
    \/ \E p \in DOMAIN heap, n \in AddInputs : Add(p, n)
    \/ EncodeLogTailMetricsDelta

SpecLate == Init /\ [][NextLate]_vars

\* the text dump next to the encoder, over a counter and a gauge
NextExpo ==
    \/ Tick(minMetricEncodeInterval)
    \/ \E n \in {NameA} \ DOMAIN metrics : NewCounter(n)
    \/ \E n \in {NameValid} \ DOMAIN metrics : NewGauge(n)
    \/ \E p \in Counters : Add(p, Int64(1))
    \/ \E p \in Gauges, v \in SetInputs : Set(p, v)
    \/ \E k \in WriterInputs : WritePrometheusExpositionFormat(k)
    \/ EncodeLogTailMetricsDelta

SpecExpo == Init /\ [][NextExpo]_vars

\* Add and Set between the loads of an encode call
NextScan ==
    \/ Tick(minMetricEncodeInterval)
    \/ \E n \in {NameA} \ DOMAIN metrics : NewCounter(n)
    \/ \E n \in {NameValid} \ DOMAIN metrics : NewGauge(n)
    \/ \E p \in Counters : Add(p, Int64(1))
    \/ \E p \in Gauges, n \in AddInputs : Add(p, n)
    \/ \E p \in Gauges, v \in SetInputs : Set(p, v)
    \/ EncodeEnter
    \/ ScanRead
    \/ ScanVisit
    \/ EncodeReturn

SpecScan == Init /\ [][NextScan]_vars

\* the registry alone, with every kind of name
NextRegistry ==
    \/ \E n \in NameInputs, t \in TypeInputs : NewUnpublished(n, t)
    \/ ZeroMetric
    \/ \E p \in DOMAIN heap : Publish(p)
    \/ \E n \in NameInputs : NewCounter(n)
    \/ \E n \in NameInputs : NewGauge(n)
    \/ Metrics

SpecRegistry == Init /\ [][NextRegistry]_vars

\* ------------------------------------------------------------------ claims
Registered == Range(metrics)
\* p has a change that the encoder has not yet reported
Pending(p) == heap[p].v # heap[p].lastLogVal
\* the step just taken was a call of EncodeLogTailMetricsDelta
EncodeStep == ret'.op = "Encode"
\* ... that got past the rate limit
ScanStep == ret'.op = "Encode" /\ ~ last'.limited
Sooner(a, b) == a # 0 /\ b - a < minMetricEncodeInterval

C2_FromLastScan ==
    [][EncodeStep =>
         /\ Sooner(last.scanAt, now) =>
               (ret'.out = <<>> /\ last'.limited /\ last'.scanAt = last.scanAt)
         /\ (last.scanAt # 0 /\ now - last.scanAt >= minMetricEncodeInterval) =>
               /\ ~ last'.limited
               /\ last'.scanAt = now
               /\ \A p \in Registered : heap'[p].lastLogVal = heap[p].v
               /\ (\E p \in Registered : Pending(p)) => ret'.out # <<>>
      ]_vars

\* a scan exactly 15 seconds after the scan before it, reporting a change
C2_Witness ==
    /\ ret.op = "Encode" /\ ~ last.limited /\ ret.out # <<>>
    /\ \E p \in Registered :
          /\ heap[p].lastNamed # 0
          /\ last.at - heap[p].lastNamed = minMetricEncodeInterval

\* the records of the frame that p's name, wireID w and kind t select
Idx(rs, t, w) == {i \in DOMAIN rs : rs[i].t = t /\ rs[i].id = Int64(w)}
NameIdx(rs, name) == {i \in DOMAIN rs : rs[i].t = "N" /\ rs[i].name = name}

\* C3: the reader that starts every metric at 0 and applies every returned
\* frame in order (N names the wireID of the S that follows, S sets, I adds
\* modulo 2^64) holds, for every metric with a wireID, that metric's name and
\* its lastLogVal, which is the value read at the latest scan of the metric.
C3_RoundTrip ==
    \A p \in Registered :
        heap[p].wireID # 0 =>
            /\ Int64(heap[p].wireID) \in DOMAIN consumer.val
            /\ consumer.val[Int64(heap[p].wireID)] = heap[p].lastLogVal
            /\ consumer.name[Int64(heap[p].wireID)] = heap[p].name
            /\ (p \in DOMAIN scanVal /\ scanVal[p].reg) => heap[p].lastLogVal = scanVal[p].v

\* the reader has followed an increment that overflowed: 1 - MinInt64
C3_Witness ==
    /\ ret.op = "Encode"
    /\ \E p \in Registered :
          /\ heap[p].wireID # 0
          /\ heap[p].lastLogVal = Int64(1)
          /\ \E i \in Idx(Records(ret.out), "I", heap[p].wireID) :
                Records(ret.out)[i].val = Add64(MinInt64, Int64(1))
          /\ consumer.val[Int64(heap[p].wireID)] = Int64(1)

\* C4: no two metrics hold the same non-zero wireID, a non-zero wireID never
\* changes, and the k-th metric to receive a wireID receives k: the wireIDs in
\* use are 1..numWireID, a call hands out numWireID+1, numWireID+2, ... in the
\* order in which its frame first mentions them.
C4_Ids ==
    LET W == {p \in DOMAIN heap : heap[p].wireID # 0} IN
        /\ \A p, q \in W : heap[p].wireID = heap[q].wireID => p = q
        /\ {heap[p].wireID : p \in W} = 1..numWireID
        /\ numWireID = Cardinality(W)

C4_Step ==
    LET rs == Records(ret'.out)
        new == {p \in DOMAIN heap : heap[p].wireID = 0 /\ heap'[p].wireID # 0}
    IN  /\ \A p \in DOMAIN heap : heap[p].wireID # 0 => heap'[p].wireID = heap[p].wireID
        /\ {heap'[p].wireID : p \in new} = (numWireID + 1)..numWireID'
        /\ \A p, q \in new :
              heap'[p].wireID < heap'[q].wireID =>
                 \E i \in Idx(rs, "S", heap'[p].wireID), j \in Idx(rs, "S", heap'[q].wireID) : i < j

C4_WireIDs == [] C4_Ids /\ [][C4_Step]_vars

\* the metric registered second holds wireID 1, the one registered first 2
C4_Witness ==
    /\ Len(regOrder) = 2
    /\ heap[regOrder[1]].wireID = 2
    /\ heap[regOrder[2]].wireID = 1

\* C5: a metric that has a wireID, was last named more than 4 hours before a
\* scan and has a changed value at that scan gets, in that call's frame, a name
\* record directly followed by an S record with its wireID and value, and no I
\* record; its lastNamed becomes the time of the call.
C5_Renamed ==
    [][\A p \in Registered :
          (/\ ScanStep
           /\ heap[p].wireID # 0
           /\ now - heap[p].lastNamed > metricLogNameFrequency
           /\ Pending(p))
          => LET rs == Records(ret'.out) IN
               /\ \E i \in NameIdx(rs, heap[p].name) :
                     /\ i + 1 \in Idx(rs, "S", heap[p].wireID)
                     /\ rs[i + 1].val = heap[p].v
               /\ Idx(rs, "I", heap[p].wireID) = {}
               /\ heap'[p].lastNamed = now
      ]_vars

\* wireID 1 was named again, later than wireID 2 was named at all
C5_Witness ==
    /\ ret.op = "Encode"
    /\ \E p, q \in Registered :
          /\ heap[p].wireID = 1 /\ heap[q].wireID = 2
          /\ heap[p].lastNamed = last.at
          /\ heap[q].lastNamed < last.at
          /\ NameIdx(Records(ret.out), heap[p].name) # {}

\* C6: a metric that has a wireID, was last named no more than 4 hours before a
\* scan and has a changed value at that scan gets, in that call's frame, exactly
\* one I record with its wireID and the difference value - lastLogVal, and
\* neither a name record nor an S record.
C6_Increment ==
    [][\A p \in Registered :
          (/\ ScanStep
           /\ heap[p].wireID # 0
           /\ now - heap[p].lastNamed <= metricLogNameFrequency
           /\ Pending(p))
          => LET rs == Records(ret'.out) IN
               /\ Cardinality(Idx(rs, "I", heap[p].wireID)) = 1
               /\ \A i \in Idx(rs, "I", heap[p].wireID) :
                     rs[i].val = Sub64(heap[p].v, heap[p].lastLogVal)
               /\ NameIdx(rs, heap[p].name) = {}
               /\ Idx(rs, "S", heap[p].wireID) = {}
      ]_vars

\* an I record for a metric named exactly 4 hours before the call
C6_Witness ==
    /\ ret.op = "Encode"
    /\ \E p \in Registered :
          /\ heap[p].wireID # 0
          /\ last.at - heap[p].lastNamed = metricLogNameFrequency
          /\ Idx(Records(ret.out), "I", heap[p].wireID) # {}

\* C7 as stated: a scan at which no metric's value differs from its value at
\* the scan before returns the empty string.
C7_NoMetricChanged ==
    [][(/\ ScanStep
        /\ last.scanAt # 0
        /\ Len(scanVal) = Len(heap)
        /\ \A p \in DOMAIN heap : heap[p].v = scanVal[p].v)
       => ret'.out = <<>>]_vars

\* C7, amended: a scan returns the empty string when every metric that was
\* registered at the scan before has the value it had then, and every metric
\* registered since has the value 0.
C7_NoRegisteredChanged ==
    [][(/\ ScanStep
        /\ last.scanAt # 0
        /\ \A p \in Registered :
              heap[p].v = IF p \in DOMAIN scanVal /\ scanVal[p].reg
                          THEN scanVal[p].v ELSE Zero64)
       => ret'.out = <<>>]_vars

\* a later scan of a metric that was reported before returned nothing
C7_Witness ==
    /\ ret.op = "Encode" /\ ~ last.limited /\ ret.out = <<>>
    /\ \E p \in Registered :
          /\ heap[p].wireID # 0
          /\ heap[p].lastNamed < last.at
          /\ heap[p].v # Zero64

\* C8: every character of a returned frame is 'N', 'S', 'I', a lowercase hex
\* digit or a character of a registered name, and none is a double quote, a
\* backslash or a control character.
HexChars == (48..57) \cup (97..102)
NameChars == UNION {Range(n) : n \in DOMAIN metrics}
C8_JsonSafe ==
    ret.op = "Encode" =>
        \A i \in DOMAIN ret.out :
            /\ ret.out[i] \in {78, 83, 73} \cup HexChars \cup NameChars
            /\ ret.out[i] \notin {34, 92, 127} \cup (0..31)

\* a frame that names valid_Name123 and sets it to MinInt64
C8_Witness ==
    /\ ret.op = "Encode"
    /\ NameIdx(Records(ret.out), NameValid) # {}
    /\ \E i \in DOMAIN Records(ret.out) :
          Records(ret.out)[i].t = "S" /\ Records(ret.out)[i].val = MinInt64

\* C9: Publish of a metric whose name is in the registry panics and leaves the
\* map, the sorted cache and its dirty flag as they were, with the lock
\* released; Publish of a metric with a valid name that is not in the registry
\* succeeds, and Metrics() returns every registered metric.
ValidChars == (97..122) \cup (65..90) \cup (48..57) \cup {95}
ValidName(n) == n # <<>> /\ \A i \in DOMAIN n : n[i] \in ValidChars
PublishStep == ret'.op \in {"Publish", "NewCounter", "NewGauge"}
C9_Duplicate ==
    [][/\ (PublishStep /\ ret'.name \in DOMAIN metrics) =>
            /\ ret'.panicked
            /\ metrics' = metrics /\ sorted' = sorted /\ sortedDirty' = sortedDirty
            /\ mu' = FALSE
       /\ (PublishStep /\ ValidName(ret'.name) /\ ret'.name \notin DOMAIN metrics) =>
            /\ ~ ret'.panicked
            /\ DOMAIN metrics' = DOMAIN metrics \cup {ret'.name}
            /\ metrics'[ret'.name] = ret'.m
            /\ \A n \in DOMAIN metrics : metrics'[n] = metrics[n]
       /\ ret'.op = "Metrics" => Range(ret'.out) = Range(metrics)
      ]_vars

\* a second metric of a registered name was turned away, the first one stays
C9_Witness ==
    /\ ret.op = "Publish" /\ ret.panicked
    /\ ret.name \in DOMAIN metrics /\ metrics[ret.name] # ret.m
    /\ heap[ret.m].name = heap[metrics[ret.name]].name

\* C10: NewUnpublished, NewCounter and NewGauge panic, adding nothing, when the
\* name is empty or has a character outside [A-Za-z0-9_], and NewUnpublished
\* only then; a valid name that is not registered is accepted; Publish of a
\* metric without a name panics; every registered name is valid.
ConstructStep == ret'.op \in {"NewUnpublished", "NewCounter", "NewGauge"}
C10_Step ==
    /\ (ConstructStep /\ ~ ValidName(ret'.name)) =>
          (ret'.panicked /\ metrics' = metrics /\ heap' = heap /\ sortedDirty' = sortedDirty)
    /\ (ret'.op = "NewUnpublished" /\ ValidName(ret'.name)) =>
          (~ ret'.panicked /\ heap'[ret'.m].name = ret'.name /\ metrics' = metrics)
    /\ (ret'.op \in {"NewCounter", "NewGauge"} /\ ValidName(ret'.name)
           /\ ret'.name \notin DOMAIN metrics) =>
          (~ ret'.panicked /\ ret'.name \in DOMAIN metrics'
             /\ heap'[metrics'[ret'.name]].name = ret'.name)
    /\ (ret'.op = "Publish" /\ ret'.name = <<>>) => (ret'.panicked /\ metrics' = metrics)

C10_Names ==
    [] (\A n \in DOMAIN metrics : ValidName(n) /\ heap[metrics[n]].name = n)
    /\ [][C10_Step]_vars

\* "has-dash" was turned away while "valid_Name123" is registered
C10_Witness ==
    /\ ret.op = "NewCounter" /\ ret.name = NameDash /\ ret.panicked
    /\ NameValid \in DOMAIN metrics

\* a list of metrics that holds each of the set ps once, in ascending name order
IsSortedListOf(l, ps) ==
    /\ Range(l) = ps
    /\ Len(l) = Cardinality(ps)
    /\ \A i, j \in DOMAIN l : i < j => StrLess(heap[l[i]].name, heap[l[j]].name)

\* C11: every Metrics() call returns a list that holds each metric published
\* before the call exactly once and nothing else, in strictly ascending name
\* order; and while the cache is not marked dirty it is such a list, so the
\* cache is returned as it is only when nothing was registered since it was
\* built.
C11_SortedList ==
    /\ [] (~ sortedDirty => IsSortedListOf(sorted, Range(regOrder)))
    /\ [][ret'.op = "Metrics" =>
            /\ IsSortedListOf(ret'.out, Range(regOrder))
            /\ Range(ret'.out) = Range(metrics)
            /\ (~ sortedDirty => ret'.out = sorted)
         ]_vars

\* Metrics() returned two metrics, the one registered second first
C11_Witness ==
    /\ ret.op = "Metrics"
    /\ Len(ret.out) = 2 /\ Len(regOrder) = 2
    /\ ret.out[1] = regOrder[2] /\ ret.out[2] = regOrder[1]
    /\ heap[ret.out[1]].name = NameA /\ heap[ret.out[2]].name = NameValid

ExpoStep == ret'.op = "WritePrometheusExpositionFormat"

\* C12: a WritePrometheusExpositionFormat call changes no metric's wireID,
\* lastNamed, lastLogVal or value, nor numWireID, lastDelta, the map or the
\* clock: nothing that EncodeLogTailMetricsDelta reads, so the frames that
\* follow, and the reader's view of them, are what they are without the call.
C12_ExpoFrame ==
    [][ExpoStep =>
         /\ heap' = heap
         /\ numWireID' = numWireID /\ lastDelta' = lastDelta
         /\ metrics' = metrics /\ now' = now
         /\ consumer' = consumer /\ namedAt' = namedAt
      ]_vars

\* a dump of a negative gauge, made while a change of a metric that has a
\* wireID waits to be reported
C12_Witness ==
    /\ ret.op = "WritePrometheusExpositionFormat"
    /\ ret.rejected = 0
    /\ \E p \in Registered :
          /\ heap[p].v = MinInt64
          /\ heap[p].wireID # 0 /\ Pending(p)
    /\ \E i \in DOMAIN ret.out : ret.out[i] = 45

\* C13: when the writer rejects a write of WritePrometheusExpositionFormat,
\* the caller is told: the call returns an error or panics.
C13_Propagated ==
    (ret.op = "WritePrometheusExpositionFormat" /\ ret.rejected > 0)
        => (ret.err \/ ret.panicked)

\* the step just taken was the return of a call that scanned, load by load
ReturnStep == scan.pc = "loop" /\ scan'.pc = "idle"

\* C14: with Add and Set landing anywhere between the loads of a scan, the one
\* value loaded for a metric is the metric's new lastLogVal and is what the
\* frame makes the reader hold; so between calls the reader holds lastLogVal
\* of every metric that has a wireID, an update that lands after the load is
\* a pending change for the next scan, and a metric that was not updated since
\* its load is held by the reader at its current value.
C14_OneLoad ==
    /\ [] (scan = NoScan =>
             \A p \in Registered :
                 /\ heap[p].wireID # 0 =>
                       /\ Int64(heap[p].wireID) \in DOMAIN consumer.val
                       /\ consumer.val[Int64(heap[p].wireID)] = heap[p].lastLogVal
                 /\ heap[p].wireID = 0 => heap[p].lastLogVal = Zero64)
    /\ [][ReturnStep =>
            \A p \in DOMAIN scan.read :
                /\ heap[p].lastLogVal = scan.read[p]
                /\ heap[p].wireID # 0 =>
                      consumer'.val[Int64(heap[p].wireID)] = scan.read[p]
                /\ heap[p].wireID = 0 => scan.read[p] = Zero64
                /\ heap[p].v # scan.read[p] => Pending(p)
                /\ heap[p].v = scan.read[p] =>
                      IF heap[p].wireID # 0
                      THEN consumer'.val[Int64(heap[p].wireID)] = heap[p].v
                      ELSE heap[p].v = Zero64
         ]_vars

\* an Add landed between a metric's load and the return of the call: the
\* frame and the reader have the value loaded, the metric is one ahead
C14_Witness ==
    /\ ret.op = "Encode" /\ scan = NoScan
    /\ \E p \in Registered :
          /\ p \in DOMAIN scanVal /\ scanVal[p].reg
          /\ heap[p].wireID # 0
          /\ heap[p].v = Add64(scanVal[p].v, Int64(1))
          /\ consumer.val[Int64(heap[p].wireID)] = scanVal[p].v
          /\ Idx(Records(ret.out), "I", heap[p].wireID) # {}

\* C15: at a scan, a registered metric whose value equals its lastLogVal is
\* left as it is and has no record in the frame (none with its wireID, no name
\* record with its name); the scan hands out exactly one wireID per changed
\* metric that had none; and a metric receives a wireID only at a scan at
\* which its value is not 0.
C15_Skipped ==
    /\ [][ScanStep =>
            /\ \A p \in Registered :
                  ~ Pending(p) =>
                     LET rs == Records(ret'.out) IN
                       /\ heap'[p] = heap[p]
                       /\ NameIdx(rs, heap[p].name) = {}
                       /\ heap[p].wireID # 0 =>
                             /\ Idx(rs, "S", heap[p].wireID) = {}
                             /\ Idx(rs, "I", heap[p].wireID) = {}
            /\ numWireID' - numWireID =
                  Cardinality({p \in Registered : Pending(p) /\ heap[p].wireID = 0})
         ]_vars
    /\ [][\A p \in DOMAIN heap :
             (heap[p].wireID = 0 /\ heap'[p].wireID # 0) =>
                (ScanStep /\ heap[p].v # Zero64)
         ]_vars

\* a frame that reports one metric and passes over another, which has a
\* wireID, a value other than 0 and no change
C15_Witness ==
    /\ ret.op = "Encode" /\ ~ last.limited /\ ret.out # <<>>
    /\ \E p \in Registered :
          /\ heap[p].wireID # 0
          /\ heap[p].v # Zero64
          /\ heap[p].lastNamed < last.at
          /\ Idx(Records(ret.out), "S", heap[p].wireID) = {}
          /\ Idx(Records(ret.out), "I", heap[p].wireID) = {}

\* C16: a call that is not rate-limited leaves its time in lastDelta, whatever
\* it returns; and a call less than 15 seconds after a call that scanned and
\* returned the empty string is rate-limited and returns the empty string.
C16_EmptyScanCounts ==
    /\ [][ScanStep => (lastDelta' = now /\ last'.scanAt = now)]_vars
    /\ [][(EncodeStep /\ ~ last.limited /\ last.empty /\ Sooner(last.at, now))
             => (ret'.out = <<>> /\ last'.limited /\ heap' = heap)]_vars

\* no frame was ever returned, so the latest scan returned the empty string,
\* and a later call was turned away with a change waiting
C16_Witness ==
    /\ ret.op = "Encode" /\ last.limited
    /\ last.scanAt # 0 /\ last.at > last.scanAt
    /\ numWireID = 0
    /\ \E p \in Registered : Pending(p)

\* C17: every I record of a frame is for a wireID that an earlier frame named,
\* the latest such frame being at most 4 hours older and naming the metric that
\* holds the wireID; and the first record for a wireID is an S record directly
\* after the name record of its metric.
C17_LookBack ==
    [][ScanStep =>
         LET rs == Records(ret'.out) IN
         \A i \in DOMAIN rs :
            /\ rs[i].t = "I" =>
                  /\ rs[i].id \in DOMAIN namedAt
                  /\ now - namedAt[rs[i].id] <= metricLogNameFrequency
                  /\ \E p \in Registered :
                        /\ Int64(heap'[p].wireID) = rs[i].id
                        /\ consumer.name[rs[i].id] = heap[p].name
            /\ (rs[i].t \in {"S", "I"} /\ rs[i].id \notin DOMAIN namedAt) =>
                  /\ rs[i].t = "S"
                  /\ i > 1 /\ rs[i - 1].t = "N"
                  /\ \E p \in Registered :
                        /\ Int64(heap'[p].wireID) = rs[i].id
                        /\ rs[i - 1].name = heap[p].name
      ]_vars

\* an I record in a frame made exactly 4 hours after the frame that named
\* its wireID
C17_Witness ==
    /\ ret.op = "Encode"
    /\ \E i \in DOMAIN Records(ret.out) :
          /\ Records(ret.out)[i].t = "I"
          /\ Records(ret.out)[i].id \in DOMAIN namedAt
          /\ last.at - namedAt[Records(ret.out)[i].id] = metricLogNameFrequency

\* C18: in every returned frame each name record is directly followed by an
\* S record that has the wireID and the current value of the metric of that
\* name, each S record directly follows a name record, and no wireID is in
\* more than one S or I record.
C18_FrameStructure ==
    ret.op = "Encode" =>
        LET rs == Records(ret.out) IN
        /\ \A i \in DOMAIN rs : rs[i].t \in {"N", "S", "I"}
        /\ \A i \in DOMAIN rs :
              rs[i].t = "N" =>
                 /\ i + 1 \in DOMAIN rs /\ rs[i + 1].t = "S"
                 /\ rs[i].name \in DOMAIN metrics
                 /\ rs[i + 1].id = Int64(heap[metrics[rs[i].name]].wireID)
                 /\ rs[i + 1].val = heap[metrics[rs[i].name]].v
        /\ \A i \in DOMAIN rs : rs[i].t = "S" => (i > 1 /\ rs[i - 1].t = "N")
        /\ \A i, j \in DOMAIN rs :
              (rs[i].t \in {"S", "I"} /\ rs[j].t \in {"S", "I"} /\ rs[i].id = rs[j].id)
                 => i = j

\* a frame of three records: an increment of one metric and the name and
\* value of another
C18_Witness ==
    /\ ret.op = "Encode"
    /\ Len(Records(ret.out)) = 3
    /\ \E i \in 1..3 : Records(ret.out)[i].t = "I"
    /\ \E i \in 1..2 : Records(ret.out)[i].t = "N" /\ Records(ret.out)[i + 1].t = "S"

\* C19: a call made less than 15 seconds after lastDelta returns the empty
\* string and leaves lastDelta, numWireID, the map and every metric's wireID,
\* lastNamed, lastLogVal and value as they were; and the first call after it
\* that is not rate-limited reports every pending change in full: the metric
\* has a wireID, and the reader and lastLogVal hold its value.
C19_LimitedNoEffect ==
    /\ [][(EncodeStep /\ Sooner(lastDelta, now)) =>
            /\ ret'.out = <<>>
            /\ heap' = heap /\ numWireID' = numWireID /\ lastDelta' = lastDelta
            /\ metrics' = metrics /\ consumer' = consumer /\ namedAt' = namedAt
         ]_vars
    /\ [][(ScanStep /\ last.limited) =>
            \A p \in Registered :
               Pending(p) =>
                  /\ heap'[p].wireID # 0
                  /\ heap'[p].lastLogVal = heap[p].v
                  /\ consumer'.val[Int64(heap'[p].wireID)] = heap[p].v
         ]_vars

\* a rate-limited call has left the change of a metric waiting: the metric
\* was reported before, and the reader still holds its lastLogVal
C19_Witness ==
    /\ ret.op = "Encode" /\ last.limited /\ lastDelta = last.scanAt
    /\ \E p \in Registered :
          /\ heap[p].wireID # 0
          /\ heap[p].lastLogVal # heap[p].v
          /\ consumer.val[Int64(heap[p].wireID)] = heap[p].lastLogVal

\* C20: the first call of EncodeLogTailMetricsDelta is not rate-limited,
\* however early the clock, and returns a frame when a registered metric is
\* not 0.
C20_FirstCall ==
    [][(EncodeStep /\ last.at = 0) =>
         /\ ~ last'.limited
         /\ lastDelta = 0 /\ lastDelta' = now
         /\ (\E p \in Registered : heap[p].v # Zero64) => ret'.out # <<>>
      ]_vars

\* a frame returned at the time the process started
C20_Witness ==
    /\ ret.op = "Encode" /\ ~ last.limited
    /\ last.at = StartTime /\ now = StartTime
    /\ ret.out # <<>>
    /\ \E p \in Registered : heap[p].wireID = 1 /\ heap[p].lastNamed = StartTime

\* C21: every slice that Metrics() has returned shows, at any later time, the
\* metrics it showed when it was returned, in the same order, whatever was
\* registered and listed since; and a Metrics() call that follows a
\* registration returns a slice of an array made by that call.
C21_ListsKept ==
    /\ [] (\A h \in held : View(arrays, h.arr, h.len) = h.was)
    /\ [][(ret'.op = "Metrics" /\ sortedDirty) =>
            /\ sortedArr' \notin DOMAIN arrays
            /\ \A h \in held : h.arr # sortedArr'
            /\ \A a \in DOMAIN arrays : arrays'[a] = arrays[a]
         ]_vars

\* a caller holds a list of one metric, and a later list has another metric
\* in that place
C21_Witness ==
    /\ ret.op = "Metrics" /\ Len(ret.out) = 2
    /\ \E h \in held :
          /\ h.len = 1 /\ h.arr # sortedArr
          /\ h.was[1] = ret.out[2]
          /\ View(arrays, h.arr, h.len) = h.was

====
